---- MODULE Spec2Model ----
(***************************************************************************)
(* Complaint lifecycle and dashboard bookkeeping of Fix-It-Fast.            *)
(*                                                                         *)
(* The state is the content of the MongoDB collections the handlers touch  *)
(* (complaints, dashboards), the wall clock, the status-update requests    *)
(* that have read their document and not yet saved it, and the response of *)
(* the request handled last.  Two sets of write handlers exist in the      *)
(* repository: the functions of controllers/complaintController.js and the *)
(* inline handlers of routes/complaints.js.  Both are modelled.            *)
(***************************************************************************)
EXTENDS Integers, Sequences, FiniteSets, TLC

\* ------------------------------------------------------------------ bounds
MaxComplaints == 1
MaxHistory == 3
MaxTime == 1
MaxDashboards == 1
MaxInFlight == 2
MaxLikes == 2
MaxPage == 2
MaxLimit == 2

\* ----------------------------------------------------------------- domains
Subjects == {"u1", "u2", "a1", "m1"}

\* req.user.role as authenticateToken attaches it.
Role(s) ==
  CASE s = "a1" -> "admin"
    [] s = "m1" -> "moderator"
    [] OTHER -> "user"

\* The subjects that file complaints in the runs explored.
Creators == {"u1"}

\* The subjects that like complaints in the runs explored.
Likers == {"u2"}

\* The titles an edit carries.
EditTitles == {"", "Flooded road"}

Statuses == {"Pending", "In Progress", "Resolved", "Rejected"}

Notes == {"", "assigned"}

Titles == {"", "Pothole"}

Ids == 1..MaxComplaints

VARIABLES complaints, dashboards, strictQuery, now, nextId, inflight, resp

vars == <<complaints, dashboards, strictQuery, now, nextId, inflight, resp>>

\* ------------------------------------------------------- JavaScript values
\* A value a handler reads off a document: a number, undefined or NaN.
JsNum(n) == [t |-> "number", v |-> n]
Undefined == [t |-> "undefined", v |-> 0]
NaN == [t |-> "NaN", v |-> 0]

\* a - b
JsSub(a, b) ==
  IF a.t = "number" /\ b.t = "number" THEN JsNum(a.v - b.v) ELSE NaN

\* Math.max(a, b)
JsMax(a, b) ==
  IF a.t = "number" /\ b.t = "number"
    THEN (IF a.v >= b.v THEN a ELSE b)
    ELSE NaN

\* a + b on numbers (undefined + n is NaN)
JsAdd(a, b) ==
  IF a.t = "number" /\ b.t = "number" THEN JsNum(a.v + b.v) ELSE NaN

\* a === b
JsEq(a, b) ==
  /\ a.t = b.t
  /\ a.t # "NaN"
  /\ a.v = b.v

\* ---------------------------------------------------------- Dashboard model
\* The paths of dashboardSchema; a strict schema keeps no other field.
DashboardPaths == {"title", "description", "status"}

\* The instance methods dashboardSchema defines: none.
DashboardMethods == {}

\* The counters the complaint handlers expect on a dashboard document.
CounterFields == {"totalComplaints", "pending", "inProgress", "resolved", "rejected"}

\* Schema validation of a document built from `input`: title and description
\* are required, status has a default.
DashboardValid(input) ==
  /\ "title" \in DOMAIN input /\ input["title"] # ""
  /\ "description" \in DOMAIN input /\ input["description"] # ""

\* The document the schema keeps of `input`.
DashboardDoc(input) ==
  [title |-> input["title"],
   description |-> input["description"],
   status |-> IF "status" \in DOMAIN input /\ input["status"] # ""
                THEN input["status"] ELSE "pending"]

\* Dashboard.findOne({ user: owner }): the positions of the documents a query
\* on `user` matches.  `user` is no path of the schema: with strictQuery the
\* filter is emptied and the first document matches, without it no stored
\* document carries the field.
DashboardFindOne(owner) ==
  IF strictQuery /\ Len(dashboards) > 0 THEN {1} ELSE {}

\* dashboard.<field> of a hydrated document.
DashboardGet(doc, field) ==
  IF field \in DashboardPaths THEN [t |-> "string", v |-> 0] ELSE Undefined

\* What a reader of the owner's aggregate finds under `field`.
Counter(owner, field) ==
  IF DashboardFindOne(owner) = {}
    THEN Undefined
    ELSE DashboardGet(dashboards[CHOOSE i \in DashboardFindOne(owner) : TRUE], field)

\* The dashboard bookkeeping of createComplaint; yields the dashboards
\* collection afterwards and whether the inner try block threw.
DashboardOnCreate(owner) ==
  LET found == DashboardFindOne(owner)
      input == [user |-> owner]
      created == found = {} /\ DashboardValid(input)
      coll == IF created THEN Append(dashboards, DashboardDoc(input)) ELSE dashboards
      threw == \/ (found = {} /\ ~DashboardValid(input))
               \/ "incrementComplaint" \notin DashboardMethods
  IN [dashboards |-> coll, threw |-> threw]

\* ------------------------------------------------------------ Complaint model
\* complaintSchema.pre('save') on a new document.
PreSaveNew(doc) ==
  [doc EXCEPT !.statusHistory =
     Append(@, [status |-> doc.status, updatedBy |-> doc.user,
                updatedAt |-> now, note |-> "Complaint created"])]

\* Schema validation of the fields a client supplies.
ComplaintValid(title) == title # ""

\* new Complaint({...}) with the schema defaults.
NewComplaint(owner, title) ==
  [user |-> owner, title |-> title, status |-> "Pending", adminNote |-> "",
   likes |-> <<>>, statusHistory |-> <<>>]

\* The response of the request handled last: the handler, the HTTP status and
\* whether the handler logged a failed dashboard update.
NoResp == [handler |-> "none", code |-> 0, dashboardError |-> FALSE]

Respond(h, c, e) == [handler |-> h, code |-> c, dashboardError |-> e]

Init ==
  /\ complaints = <<>>
  /\ dashboards = <<>>
  /\ strictQuery \in BOOLEAN
  /\ now = 0
  /\ nextId = 1
  /\ inflight = <<>>
  /\ resp = NoResp

\* The clock advances between two steps.
Tick ==
  /\ now < MaxTime
  /\ now' = now + 1
  /\ UNCHANGED <<complaints, dashboards, strictQuery, nextId, inflight, resp>>

\* POST /dashboard
DashboardPost(title, description) ==
  /\ Len(dashboards) < MaxDashboards
  /\ LET input == [title |-> title, description |-> description]
     IN IF title = "" \/ description = ""
          THEN /\ dashboards' = dashboards
               /\ resp' = Respond("dashboardPost", 400, FALSE)
          ELSE /\ dashboards' = Append(dashboards, DashboardDoc(input))
               /\ resp' = Respond("dashboardPost", 201, FALSE)
  /\ UNCHANGED <<complaints, strictQuery, now, nextId, inflight>>

\* createComplaint without the try/catch around its dashboard update: the
\* error reaches the outer catch block after the complaint is saved.
createComplaint_DashboardUnguarded(subj, title) ==
  /\ nextId <= MaxComplaints
  /\ IF ~ComplaintValid(title)
       THEN /\ resp' = Respond("createComplaint", 400, FALSE)
            /\ UNCHANGED <<complaints, dashboards, nextId>>
       ELSE LET d == DashboardOnCreate(subj)
            IN /\ complaints' = (nextId :> PreSaveNew(NewComplaint(subj, title))) @@ complaints
               /\ nextId' = nextId + 1
               /\ dashboards' = d.dashboards
               /\ resp' = Respond("createComplaint", IF d.threw THEN 500 ELSE 201, d.threw)
  /\ UNCHANGED <<strictQuery, now, inflight>>

\* controllers/complaintController.js createComplaint
createComplaint(subj, title) ==
  /\ nextId <= MaxComplaints
  /\ IF ~ComplaintValid(title)
       THEN /\ resp' = Respond("createComplaint", 400, FALSE)
            /\ UNCHANGED <<complaints, dashboards, nextId>>
       ELSE LET d == DashboardOnCreate(subj)
            IN /\ complaints' = (nextId :> PreSaveNew(NewComplaint(subj, title))) @@ complaints
               /\ nextId' = nextId + 1
               /\ dashboards' = d.dashboards
               /\ resp' = Respond("createComplaint", 201, d.threw)
  /\ UNCHANGED <<strictQuery, now, inflight>>

\* routes/complaints.js router.post('/')
RouterPost(subj, title) ==
  /\ nextId <= MaxComplaints
  /\ IF ~ComplaintValid(title)
       THEN /\ resp' = Respond("routerPost", 400, FALSE)
            /\ UNCHANGED <<complaints, nextId>>
       ELSE /\ complaints' = (nextId :> PreSaveNew(NewComplaint(subj, title))) @@ complaints
            /\ nextId' = nextId + 1
            /\ resp' = Respond("routerPost", 201, FALSE)
  /\ UNCHANGED <<dashboards, strictQuery, now, inflight>>

\* The note updateComplaintStatus records when the request carries none.
StatusChangedNote(old, new) == "Status changed from " \o old \o " to " \o new

\* The route registered without the role middleware: every authenticated
\* subject passes.
requireAdminOrModerator_Omitted(subj) == TRUE

\* requireAdminOrModerator (middleware/auth.js): TRUE when the request passes.
requireAdminOrModerator(subj) ==
  Role(subj) = "admin" \/ Role(subj) = "moderator"

\* The role check that opens updateComplaintStatus: TRUE when the request passes.
ControllerAdminOnly(subj) == Role(subj) = "admin"

\* updateComplaintStatus up to its `await complaint.save()`: the early
\* returns (code # 0), or the changes made to the document in memory.
ControllerStatusRead(subj, id, status, note) ==
  IF ~ControllerAdminOnly(subj) THEN [code |-> 403]
  ELSE IF status \notin Statuses THEN [code |-> 400]
  ELSE IF id \notin DOMAIN complaints THEN [code |-> 404]
  ELSE LET c == complaints[id]
           newNote == IF note # "" THEN note ELSE c.adminNote
       IN [code |-> 0, handler |-> "updateComplaintStatus", user |-> subj, id |-> id,
           status |-> status, oldStatus |-> c.status,
           setStatus |-> status # c.status,
           setNote |-> newNote # c.adminNote, adminNote |-> newNote,
           entry |-> [status |-> status, updatedBy |-> subj, updatedAt |-> now,
                      note |-> IF note # "" THEN note
                               ELSE StatusChangedNote(c.status, status)]]

\* router.patch('/:id/status') and its alias router.put('/:id/status') up to
\* their `await complaint.save()`.
RouterStatusRead(subj, id, status, note) ==
  IF ~requireAdminOrModerator(subj) THEN [code |-> 403]
  ELSE IF id \notin DOMAIN complaints THEN [code |-> 404]
  ELSE LET c == complaints[id]
           newNote == IF note # "" THEN note ELSE c.adminNote
       IN [code |-> 0, handler |-> "routerStatus", user |-> subj, id |-> id,
           status |-> status, oldStatus |-> c.status,
           setStatus |-> status # c.status,
           setNote |-> newNote # c.adminNote, adminNote |-> newNote,
           entry |-> [status |-> status, updatedBy |-> subj, updatedAt |-> now,
                      note |-> note]]

StatusRead(h, subj, id, status, note) ==
  IF h = "updateComplaintStatus"
    THEN ControllerStatusRead(subj, id, status, note)
    ELSE RouterStatusRead(subj, id, status, note)

\* complaint.save() of a document read earlier: Mongoose sends $set for the
\* paths whose value changed and $push for the pushed history entry, matched
\* on _id alone.
MongooseSave(r, coll) ==
  [coll EXCEPT ![r.id] =
     [@ EXCEPT !.status = IF r.setStatus THEN r.status ELSE @,
               !.adminNote = IF r.setNote THEN r.adminNote ELSE @,
               !.statusHistory = Append(@, r.entry)]]

\* The dashboard bookkeeping of updateComplaintStatus.
DashboardOnStatus(owner, old, new) ==
  LET found == DashboardFindOne(owner)
      input == [user |-> owner]
      created == found = {} /\ DashboardValid(input)
      coll == IF created THEN Append(dashboards, DashboardDoc(input)) ELSE dashboards
      threw == \/ (found = {} /\ ~DashboardValid(input))
               \/ (found = {} /\ "incrementComplaint" \notin DashboardMethods)
               \/ "updateComplaintStatus" \notin DashboardMethods
  IN [dashboards |-> coll, threw |-> threw]

\* A status update from its save on: the write, the bookkeeping, the response.
StatusSave(r) ==
  IF r.id \notin DOMAIN complaints
    THEN /\ resp' = Respond(r.handler, 500, FALSE)
         /\ UNCHANGED <<complaints, dashboards>>
    ELSE /\ complaints' = MongooseSave(r, complaints)
         /\ IF r.handler = "updateComplaintStatus"
              THEN LET d == DashboardOnStatus(complaints[r.id].user, r.oldStatus, r.status)
                   IN /\ dashboards' = d.dashboards
                      /\ resp' = Respond(r.handler, 200, d.threw)
              ELSE /\ dashboards' = dashboards
                   /\ resp' = Respond(r.handler, 200, FALSE)

\* One status-update request handled without another request in between.
StatusRequest(h, subj, id, status, note) ==
  LET r == StatusRead(h, subj, id, status, note)
  IN /\ id \in DOMAIN complaints => Len(complaints[id].statusHistory) < MaxHistory
     /\ IF r.code # 0
          THEN /\ resp' = Respond(h, r.code, FALSE)
               /\ UNCHANGED <<complaints, dashboards>>
          ELSE StatusSave(r)
     /\ UNCHANGED <<strictQuery, now, nextId, inflight>>

\* PUT /api/complaints/:id/status through the controller.
updateComplaintStatus(subj, id, status, note) ==
  StatusRequest("updateComplaintStatus", subj, id, status, note)

\* PATCH and PUT /api/complaints/:id/status through routes/complaints.js.
RouterStatus(subj, id, status, note) ==
  StatusRequest("routerStatus", subj, id, status, note)

\* The counter deleteComplaint's switch picks for a status.
StatusCounter(status) ==
  CASE status = "Pending" -> "pending"
    [] status = "In Progress" -> "inProgress"
    [] status = "Resolved" -> "resolved"
    [] OTHER -> "rejected"

\* dashboard.save() of a strict document: of the values assigned in memory
\* only those under a schema path are written.
StrictSave(doc, assigned) ==
  [f \in DOMAIN doc |->
     IF f \in DOMAIN assigned /\ f \in DashboardPaths THEN assigned[f] ELSE doc[f]]

\* The values deleteComplaint assigns to the dashboard it found.
DeleteAssignments(doc, status) ==
  LET dec(f) == JsMax(JsNum(0), JsSub(DashboardGet(doc, f), JsNum(1)))
  IN [f \in {"totalComplaints", StatusCounter(status)} |-> dec(f)]

\* The dashboard bookkeeping of deleteComplaint.
DashboardOnDelete(owner, status) ==
  LET found == DashboardFindOne(owner)
  IN IF found = {}
       THEN dashboards
       ELSE LET i == CHOOSE k \in found : TRUE
            IN [dashboards EXCEPT
                  ![i] = StrictSave(@, DeleteAssignments(@, status))]

\* Complaint.findByIdAndDelete(id)
FindByIdAndDelete(id) ==
  [i \in DOMAIN complaints \ {id} |-> complaints[i]]

\* The document deleteComplaint looks up: findById for an admin,
\* findOne({ _id, user }) for anyone else.
ControllerDeleteFinds(subj, id) ==
  /\ id \in DOMAIN complaints
  /\ Role(subj) = "admin" \/ complaints[id].user = subj

\* controllers/complaintController.js deleteComplaint.  The store may reject
\* Dashboard.findOne or dashboard.save; the inner catch block logs it.
deleteComplaint(subj, id) ==
  /\ IF ~ControllerDeleteFinds(subj, id)
       THEN /\ resp' = Respond("deleteComplaint", 404, FALSE)
            /\ UNCHANGED <<complaints, dashboards>>
       ELSE \E rejected \in BOOLEAN :
              /\ complaints' = FindByIdAndDelete(id)
              /\ dashboards' = IF rejected
                                 THEN dashboards
                                 ELSE DashboardOnDelete(complaints[id].user,
                                                        complaints[id].status)
              /\ resp' = Respond("deleteComplaint", 200, rejected)
  /\ UNCHANGED <<strictQuery, now, nextId, inflight>>

\* The checks of router.delete('/:id'): the status it answers, 0 to go on.
RouterDeleteCheck(subj, id) ==
  IF id \notin DOMAIN complaints THEN 404
  ELSE IF complaints[id].user # subj /\ Role(subj) # "admin" THEN 403
  ELSE IF Role(subj) = "user" /\ complaints[id].status # "Pending" THEN 400
  ELSE 0

\* router.delete('/:id') with findByIdAndDelete moved ahead of its checks.
RouterDelete_DeleteFirst(subj, id) ==
  /\ complaints' = FindByIdAndDelete(id)
  /\ resp' = Respond("routerDelete",
                     IF RouterDeleteCheck(subj, id) # 0
                       THEN RouterDeleteCheck(subj, id) ELSE 200, FALSE)
  /\ UNCHANGED <<dashboards, strictQuery, now, nextId, inflight>>

\* routes/complaints.js router.delete('/:id')
RouterDelete(subj, id) ==
  /\ IF RouterDeleteCheck(subj, id) # 0
       THEN /\ resp' = Respond("routerDelete", RouterDeleteCheck(subj, id), FALSE)
            /\ UNCHANGED complaints
       ELSE /\ complaints' = FindByIdAndDelete(id)
            /\ resp' = Respond("routerDelete", 200, FALSE)
  /\ UNCHANGED <<dashboards, strictQuery, now, nextId, inflight>>

\* The position of userId in likes, 0 when absent (indexOf + 1).
IndexOf(likes, userId) ==
  IF \E k \in 1..Len(likes) : likes[k] = userId
    THEN CHOOSE k \in 1..Len(likes) :
           likes[k] = userId /\ \A j \in 1..(k - 1) : likes[j] # userId
    ELSE 0

\* likes.splice(k - 1, 1)
Splice(likes, k) ==
  [j \in 1..(Len(likes) - 1) |-> IF j < k THEN likes[j] ELSE likes[j + 1]]

\* toggleLike whose save runs a pre('save') hook without the isNew test: it
\* pushes a history entry on every save.
toggleLike_HookOnEverySave(doc, userId) ==
  LET k == IndexOf(doc.likes, userId)
  IN [doc EXCEPT !.likes = IF k = 0 THEN Append(@, userId) ELSE Splice(@, k),
                 !.statusHistory =
                    Append(@, [status |-> doc.status, updatedBy |-> doc.user,
                               updatedAt |-> now, note |-> "Complaint created"])]

\* complaintSchema.methods.toggleLike
toggleLike(doc, userId) ==
  LET k == IndexOf(doc.likes, userId)
  IN [doc EXCEPT !.likes = IF k = 0 THEN Append(@, userId) ELSE Splice(@, k)]

\* A like handler whose save writes the document back with the default of
\* the status path instead of the changed likes alone.
LikeRequest_SavesDefaults(h, subj, id) ==
  /\ IF id \notin DOMAIN complaints
       THEN /\ resp' = Respond(h, 404, FALSE)
            /\ UNCHANGED complaints
       ELSE /\ complaints' = [complaints EXCEPT
                                ![id] = [toggleLike(@, subj) EXCEPT !.status = "Pending"]]
            /\ resp' = Respond(h, 200, FALSE)
  /\ UNCHANGED <<dashboards, strictQuery, now, nextId, inflight>>

\* The like handlers: toggleComplaintLike of the controller and
\* router.post('/:id/like').
LikeRequest(h, subj, id) ==
  /\ IF id \notin DOMAIN complaints
       THEN /\ resp' = Respond(h, 404, FALSE)
            /\ UNCHANGED complaints
       ELSE /\ complaints' = [complaints EXCEPT ![id] = toggleLike(@, subj)]
            /\ resp' = Respond(h, 200, FALSE)
  /\ UNCHANGED <<dashboards, strictQuery, now, nextId, inflight>>

toggleComplaintLike(subj, id) == LikeRequest("toggleComplaintLike", subj, id)

RouterLike(subj, id) == LikeRequest("routerLike", subj, id)

\* The checks of router.put('/:id'): the status it answers, 0 to go on.
RouterPutCheck(subj, id) ==
  IF id \notin DOMAIN complaints THEN 404
  ELSE IF complaints[id].user # subj /\ Role(subj) # "admin" THEN 403
  ELSE IF Role(subj) = "user" /\ complaints[id].status # "Pending" THEN 400
  ELSE 0

\* router.put('/:id') that hands the whole request body to the update, the
\* `user` of the body included.
RouterPut_CopiesBody(subj, id, title) ==
  /\ IF RouterPutCheck(subj, id) # 0
       THEN /\ resp' = Respond("routerPut", RouterPutCheck(subj, id), FALSE)
            /\ UNCHANGED complaints
       ELSE IF ~ComplaintValid(title)
         THEN /\ resp' = Respond("routerPut", 500, FALSE)
              /\ UNCHANGED complaints
         ELSE /\ complaints' = [complaints EXCEPT ![id].title = title,
                                                   ![id].user = subj]
              /\ resp' = Respond("routerPut", 200, FALSE)
  /\ UNCHANGED <<dashboards, strictQuery, now, nextId, inflight>>

\* routes/complaints.js router.put('/:id'): findByIdAndUpdate with
\* runValidators, which throws on an empty title.
RouterPut(subj, id, title) ==
  /\ IF RouterPutCheck(subj, id) # 0
       THEN /\ resp' = Respond("routerPut", RouterPutCheck(subj, id), FALSE)
            /\ UNCHANGED complaints
       ELSE IF ~ComplaintValid(title)
         THEN /\ resp' = Respond("routerPut", 500, FALSE)
              /\ UNCHANGED complaints
         ELSE /\ complaints' = [complaints EXCEPT ![id].title = title]
              /\ resp' = Respond("routerPut", 200, FALSE)
  /\ UNCHANGED <<dashboards, strictQuery, now, nextId, inflight>>

\* The requests in flight that will push onto the history of complaint id.
InFlightFor(id) == {k \in 1..Len(inflight) : inflight[k].id = id}

\* A status update runs up to its `await complaint.save()`; other requests
\* are handled before the save is sent.
StatusBegin(h, subj, id, status, note) ==
  LET r == StatusRead(h, subj, id, status, note)
  IN /\ Len(inflight) < MaxInFlight
     /\ id \in DOMAIN complaints =>
          Len(complaints[id].statusHistory) + Cardinality(InFlightFor(id)) < MaxHistory
     /\ IF r.code # 0
          THEN /\ resp' = Respond(h, r.code, FALSE)
               /\ UNCHANGED inflight
          ELSE /\ inflight' = Append(inflight, r)
               /\ UNCHANGED resp
     /\ UNCHANGED <<complaints, dashboards, strictQuery, now, nextId>>

\* The save of the k-th request in flight reaches the store.
StatusCommit(k) ==
  /\ k \in 1..Len(inflight)
  /\ StatusSave(inflight[k])
  /\ inflight' = [j \in 1..(Len(inflight) - 1) |->
                    IF j < k THEN inflight[j] ELSE inflight[j + 1]]
  /\ UNCHANGED <<strictQuery, now, nextId>>

Next ==
  \/ \E t \in Titles, d \in Titles : DashboardPost(t, d)
  \/ \E s \in Creators, t \in Titles : createComplaint(s, t)
  \/ \E s \in Creators, t \in Titles : RouterPost(s, t)
  \/ \E s \in Subjects, i \in Ids, st \in Statuses, n \in Notes :
        updateComplaintStatus(s, i, st, n)
  \/ \E s \in Subjects, i \in Ids, st \in Statuses, n \in Notes :
        RouterStatus(s, i, st, n)
  \/ \E s \in Subjects, i \in Ids : deleteComplaint(s, i)
  \/ \E s \in Subjects, i \in Ids : RouterDelete(s, i)
  \/ \E s \in Likers, i \in Ids : toggleComplaintLike(s, i)
  \/ \E s \in Likers, i \in Ids : RouterLike(s, i)
  \/ \E s \in Subjects, i \in Ids, t \in EditTitles : RouterPut(s, i, t)

\* Requests handled one after the other, within one reading of the clock.
Spec == Init /\ [][Next]_vars

\* The administrators and notes of the interleaved runs explored.
ConcActors == {"a1"}

ConcNotes == {""}

StatusHandlers == {"updateComplaintStatus", "routerStatus"}

NextConc ==
  \/ Tick
  \/ \E s \in Creators : RouterPost(s, "Pothole")
  \/ \E h \in StatusHandlers, s \in ConcActors, i \in Ids, st \in Statuses,
        n \in ConcNotes : StatusBegin(h, s, i, st, n)
  \/ \E k \in 1..MaxInFlight : StatusCommit(k)
  \/ \E s \in ConcActors, i \in Ids : RouterDelete(s, i)

\* Status updates interleaved with each other and with deletes.
SpecConc == Init /\ [][NextConc]_vars

\* -------------------------------------------------------- interleaved likes
\* The subjects of the interleaved like requests explored.
ConcLikers == {"u1", "u2"}

LikeHandlers == {"toggleComplaintLike", "routerLike"}

\* A like handler up to the `this.save()` of toggleLike: findById, indexOf and
\* the push or splice made on the document in memory.  A push is saved as
\* $push; a splice is saved as $set of the whole array under the condition
\* that __v still has the value read (stale records that it has not).
LikeRead(h, subj, id) ==
  IF id \notin DOMAIN complaints THEN [code |-> 404]
  ELSE LET doc == complaints[id]
       IN [code |-> 0, handler |-> h, user |-> subj, id |-> id,
           op |-> IF IndexOf(doc.likes, subj) = 0 THEN "push" ELSE "splice",
           likes |-> toggleLike(doc, subj).likes,
           stale |-> FALSE]

\* The save of toggleLike reaching the store: the likes stored afterwards,
\* or a failure when the version condition of a splice does not match.
LikeWrite(r) ==
  IF r.op = "push"
    THEN [ok |-> TRUE, likes |-> Append(complaints[r.id].likes, r.user)]
    ELSE IF r.stale THEN [ok |-> FALSE, likes |-> complaints[r.id].likes]
    ELSE [ok |-> TRUE, likes |-> r.likes]

\* A like request runs up to its save; other requests are handled before
\* the save is sent.
LikeBegin(h, subj, id) ==
  LET r == LikeRead(h, subj, id)
  IN /\ Len(inflight) < MaxInFlight
     /\ (r.code = 0 /\ r.op = "push") =>
          Len(complaints[id].likes) + Cardinality(InFlightFor(id)) < MaxLikes
     /\ IF r.code # 0
          THEN /\ resp' = Respond(h, r.code, FALSE)
               /\ UNCHANGED inflight
          ELSE /\ inflight' = Append(inflight, r)
               /\ UNCHANGED resp
     /\ UNCHANGED <<complaints, dashboards, strictQuery, now, nextId>>

\* The requests in flight once the k-th has left; a write that landed on the
\* document has incremented its __v, which the others no longer match.
LikeRemaining(k, landed) ==
  [j \in 1..(Len(inflight) - 1) |->
     LET r == IF j < k THEN inflight[j] ELSE inflight[j + 1]
     IN IF landed /\ r.id = inflight[k].id THEN [r EXCEPT !.stale = TRUE] ELSE r]

\* The save of the k-th like request in flight reaches the store.
LikeCommit(k) ==
  /\ k \in 1..Len(inflight)
  /\ LET r == inflight[k]
     IN IF r.id \notin DOMAIN complaints
          THEN /\ resp' = Respond(r.handler, 500, FALSE)
               /\ inflight' = LikeRemaining(k, FALSE)
               /\ UNCHANGED complaints
          ELSE LET w == LikeWrite(r)
               IN /\ complaints' = [complaints EXCEPT ![r.id].likes = w.likes]
                  /\ resp' = Respond(r.handler, IF w.ok THEN 200 ELSE 500, FALSE)
                  /\ inflight' = LikeRemaining(k, w.ok)
  /\ UNCHANGED <<dashboards, strictQuery, now, nextId>>

NextLikes ==
  \/ \E s \in Creators : RouterPost(s, "Pothole")
  \/ \E h \in LikeHandlers, s \in ConcLikers, i \in Ids : LikeBegin(h, s, i)
  \/ \E k \in 1..MaxInFlight : LikeCommit(k)
  \/ \E s \in ConcActors, i \in Ids : RouterDelete(s, i)

\* Like requests interleaved with each other and with deletes.
SpecLikes == Init /\ [][NextLikes]_vars

\* ------------------------------------------------------------ read handlers
\* The subjects that file complaints in the runs with reads.
ReadCreators == {"u1", "u2"}

\* A request that carries no credential.
Anonymous == "anonymous"

\* The `user` and `status` parameters of a list request ("" when absent).
ListUsers == {"", "u1", "u2"}

ListStatuses == {"", "Pending"}

SortOrders == {"asc", "desc"}

\* router.get('/') without the restriction of a 'user' to their own
\* complaints: the `user` parameter of the query decides for every subject.
ListOwner_Unrestricted(subj, userParam) == userParam

\* query.user of router.get('/') ("" when the query carries no user).
ListOwner(subj, userParam) ==
  IF Role(subj) = "user" THEN subj ELSE userParam

\* Complaint.find(query) / countDocuments(query): the ids a query matches.
Find(owner, status) ==
  {i \in DOMAIN complaints :
     /\ owner # "" => complaints[i].user = owner
     /\ status # "" => complaints[i].status = status}

\* .sort({ createdAt: order }): ids are handed out in the order of creation.
SortIds(S, order) ==
  CHOOSE sq \in [1..Cardinality(S) -> S] :
    \A j, k \in 1..Cardinality(S) :
      j < k => IF order = "desc" THEN sq[j] > sq[k] ELSE sq[j] < sq[k]

\* .skip((page - 1) * limit).limit(limit)
PageOf(sq, page, limit) ==
  LET skip == (page - 1) * limit
      last == IF skip + limit < Len(sq) THEN skip + limit ELSE Len(sq)
  IN IF skip >= Len(sq) THEN <<>> ELSE SubSeq(sq, skip + 1, last)

\* A read and its response: who asked, the status the query filtered on (""
\* for none), the ids (or positions) of the documents the response carries
\* and the total it reports.
RespondList(h, subj, status, c, data, total) ==
  [handler |-> h, code |-> c, dashboardError |-> FALSE,
   subject |-> subj, status |-> status, data |-> data, total |-> total]

RespondData(h, subj, c, data, total) == RespondList(h, subj, "", c, data, total)

\* routes/complaints.js router.get('/')
RouterList(subj, userParam, status, page, limit, order) ==
  /\ LET found == Find(ListOwner(subj, userParam), status)
     IN resp' = RespondList("routerList", subj, status, 200,
                            PageOf(SortIds(found, order), page, limit),
                            Cardinality(found))
  /\ UNCHANGED <<complaints, dashboards, strictQuery, now, nextId, inflight>>

\* controllers/complaintController.js getUserComplaints
getUserComplaints(subj, page, limit) ==
  /\ LET found == Find(subj, "")
     IN resp' = RespondData("getUserComplaints", subj, 200,
                            PageOf(SortIds(found, "desc"), page, limit),
                            Cardinality(found))
  /\ UNCHANGED <<complaints, dashboards, strictQuery, now, nextId, inflight>>

\* router.get('/:id') that records the visit on the complaint it returns.
RouterGet_RecordsVisit(subj, id) ==
  /\ resp' = IF id \notin DOMAIN complaints
               THEN RespondData("routerGet", subj, 404, <<>>, 0)
             ELSE IF Role(subj) = "user" /\ complaints[id].user # subj
               THEN RespondData("routerGet", subj, 403, <<>>, 0)
             ELSE RespondData("routerGet", subj, 200, <<id>>, 1)
  /\ complaints' = IF id \in DOMAIN complaints
                     THEN [complaints EXCEPT ![id].adminNote = "viewed"]
                     ELSE complaints
  /\ UNCHANGED <<dashboards, strictQuery, now, nextId, inflight>>

\* routes/complaints.js router.get('/:id')
RouterGet(subj, id) ==
  /\ resp' = IF id \notin DOMAIN complaints
               THEN RespondData("routerGet", subj, 404, <<>>, 0)
             ELSE IF Role(subj) = "user" /\ complaints[id].user # subj
               THEN RespondData("routerGet", subj, 403, <<>>, 0)
             ELSE RespondData("routerGet", subj, 200, <<id>>, 1)
  /\ UNCHANGED <<complaints, dashboards, strictQuery, now, nextId, inflight>>

\* controllers/complaintController.js getComplaint: findById for an admin,
\* findOne({ _id, user }) for anyone else.
getComplaint(subj, id) ==
  /\ resp' = IF /\ id \in DOMAIN complaints
                /\ Role(subj) = "admin" \/ complaints[id].user = subj
               THEN RespondData("getComplaint", subj, 200, <<id>>, 1)
               ELSE RespondData("getComplaint", subj, 404, <<>>, 0)
  /\ UNCHANGED <<complaints, dashboards, strictQuery, now, nextId, inflight>>

\* routes/dashboard.js router.get('/'): no middleware, every entry.
DashboardList(requester) ==
  /\ resp' = RespondData("dashboardList", requester, 200,
                          [k \in 1..Len(dashboards) |-> Len(dashboards) + 1 - k],
                          Len(dashboards))
  /\ UNCHANGED <<complaints, dashboards, strictQuery, now, nextId, inflight>>

\* routes/dashboard.js router.get('/:id'): no middleware, findById.
DashboardGetById(requester, k) ==
  /\ resp' = IF k \in 1..Len(dashboards)
               THEN RespondData("dashboardGet", requester, 200, <<k>>, 1)
               ELSE RespondData("dashboardGet", requester, 404, <<>>, 0)
  /\ UNCHANGED <<complaints, dashboards, strictQuery, now, nextId, inflight>>

NextRead ==
  \/ \E s \in ReadCreators : RouterPost(s, "Pothole")
  \/ \E i \in Ids, st \in Statuses : RouterStatus("a1", i, st, "")
  \/ DashboardPost("Pothole", "Pothole")
  \/ \E s \in Subjects, u \in ListUsers, st \in ListStatuses,
        p \in 1..MaxPage, l \in 1..MaxLimit, o \in SortOrders :
        RouterList(s, u, st, p, l, o)
  \/ \E s \in Subjects, p \in 1..MaxPage, l \in 1..MaxLimit : getUserComplaints(s, p, l)
  \/ \E s \in Subjects, i \in Ids : RouterGet(s, i)
  \/ \E s \in Subjects, i \in Ids : getComplaint(s, i)
  \/ \E r \in Subjects \cup {Anonymous} : DashboardList(r)
  \/ \E r \in Subjects \cup {Anonymous}, k \in 1..MaxDashboards : DashboardGetById(r, k)

\* Reads between creations and status updates.
SpecRead == Init /\ [][NextRead]_vars

\* controllers/complaintController.js getAllComplaints
getAllComplaints(subj, status, page, limit) ==
  /\ resp' = IF Role(subj) # "admin"
               THEN RespondList("getAllComplaints", subj, status, 403, <<>>, 0)
               ELSE RespondList("getAllComplaints", subj, status, 200,
                                PageOf(SortIds(Find("", status), "desc"), page, limit),
                                Cardinality(Find("", status)))
  /\ UNCHANGED <<complaints, dashboards, strictQuery, now, nextId, inflight>>

\* The `recent` list of the statistics: the five complaints created last.
RecentLimit == 5

\* routes/complaints.js router.get('/stats/overview')
StatsOverview(subj) ==
  /\ resp' = IF ~requireAdminOrModerator(subj)
               THEN RespondData("statsOverview", subj, 403, <<>>, 0)
               ELSE RespondData("statsOverview", subj, 200,
                                PageOf(SortIds(Find("", ""), "desc"), 1, RecentLimit),
                                Cardinality(Find("", "")))
  /\ UNCHANGED <<complaints, dashboards, strictQuery, now, nextId, inflight>>

NextReadAll ==
  \/ NextRead
  \/ \E s \in Subjects, st \in ListStatuses, p \in 1..MaxPage, l \in 1..MaxLimit :
        getAllComplaints(s, st, p, l)
  \/ \E s \in Subjects : StatsOverview(s)

\* Every read handler between creations and status updates.
SpecReadAll == Init /\ [][NextReadAll]_vars

\* ------------------------------------------- interleaved dashboard updates
\* The handlers of the controller, the ones that update the dashboard, with
\* status updates overlapping each other, creations and deletes.
NextAgg ==
  \/ DashboardPost("Pothole", "Pothole")
  \/ \E s \in Creators : createComplaint(s, "Pothole")
  \/ \E s \in ConcActors, i \in Ids, st \in Statuses :
        StatusBegin("updateComplaintStatus", s, i, st, "")
  \/ \E k \in 1..MaxInFlight : StatusCommit(k)
  \/ \E s \in Creators \cup ConcActors, i \in Ids : deleteComplaint(s, i)

\* A request that has reached its save completes; nothing else runs unless
\* a client sends a request.
SpecAgg ==
  /\ Init
  /\ [][NextAgg]_vars
  /\ WF_vars(\E k \in 1..MaxInFlight : StatusCommit(k))

\* ------------------------------------------- a store with an older complaint
\* A complaint filed by u2 before the run starts; the requests of the run
\* name the complaints created during it.
SeedId == 0

SeedComplaint ==
  [NewComplaint("u2", "Streetlight") EXCEPT
     !.statusHistory = <<[status |-> "Pending", updatedBy |-> "u2",
                          updatedAt |-> 0, note |-> "Complaint created"]>>]

InitSeeded ==
  /\ complaints = (SeedId :> SeedComplaint)
  /\ dashboards = <<>>
  /\ strictQuery \in BOOLEAN
  /\ now = 0
  /\ nextId = 1
  /\ inflight = <<>>
  /\ resp = NoResp

NextSeeded ==
  \/ DashboardPost("Pothole", "Pothole")
  \/ \E s \in Creators : createComplaint(s, "Pothole")
  \/ \E s \in Creators : RouterPost(s, "Pothole")
  \/ \E i \in Ids, st \in Statuses : RouterStatus("a1", i, st, "")
  \/ \E s \in ConcLikers, i \in Ids : toggleComplaintLike(s, i)
  \/ \E s \in ConcLikers, i \in Ids : RouterLike(s, i)
  \/ \E s \in Subjects, i \in Ids, t \in EditTitles : RouterPut(s, i, t)
  \/ \E s \in Subjects, i \in Ids : RouterDelete(s, i)

\* Requests handled one after the other on a store that already holds a
\* complaint of another subject.
SpecSeeded == InitSeeded /\ [][NextSeeded]_vars

\* --------------------------------------------------------- interleaved deletes
\* The paths of userSchema the complaint handlers could count in.
UserPaths == {"complaintCount"}

\* user.<field> as any reader finds it.  The handlers only ever send
\* $inc on `complaintsCount`, which is no path of the strict schema and is
\* dropped from the update, so a path keeps its default and anything else is
\* undefined.
UserGet(owner, field) ==
  IF field \in UserPaths THEN JsNum(0) ELSE Undefined

\* What a delete handler keeps of the complaint it read: the checks it
\* answers with, the owner and the status.
DeleteRead(h, subj, id) ==
  LET code == IF h = "deleteComplaint"
                THEN (IF ControllerDeleteFinds(subj, id) THEN 0 ELSE 404)
                ELSE RouterDeleteCheck(subj, id)
  IN IF code # 0
       THEN [handler |-> h, id |-> id, code |-> code]
       ELSE [handler |-> h, id |-> id, code |-> 0,
             user |-> complaints[id].user, status |-> complaints[id].status]

\* A delete request runs up to its `await Complaint.findByIdAndDelete`.
DeleteBegin(h, subj, id) ==
  LET r == DeleteRead(h, subj, id)
  IN /\ Len(inflight) < MaxInFlight
     /\ IF r.code # 0
          THEN /\ resp' = Respond(h, r.code, FALSE)
               /\ UNCHANGED inflight
          ELSE /\ inflight' = Append(inflight, r)
               /\ UNCHANGED resp
     /\ UNCHANGED <<complaints, dashboards, strictQuery, now, nextId>>

\* The rest of the k-th delete in flight: findByIdAndDelete, whose result
\* is not looked at, then the bookkeeping and the response.
DeleteCommit(k) ==
  /\ k \in 1..Len(inflight)
  /\ LET r == inflight[k]
     IN /\ complaints' = FindByIdAndDelete(r.id)
        /\ dashboards' = IF r.handler = "deleteComplaint"
                           THEN DashboardOnDelete(r.user, r.status)
                           ELSE dashboards
        /\ resp' = Respond(r.handler, 200, FALSE)
  /\ inflight' = [j \in 1..(Len(inflight) - 1) |->
                    IF j < k THEN inflight[j] ELSE inflight[j + 1]]
  /\ UNCHANGED <<strictQuery, now, nextId>>

NextDel ==
  \/ DashboardPost("Pothole", "Pothole")
  \/ \E s \in Creators : createComplaint(s, "Pothole")
  \/ \E s \in Creators : RouterPost(s, "Pothole")
  \/ \E i \in Ids, st \in Statuses : RouterStatus("a1", i, st, "")
  \/ \E h \in {"deleteComplaint", "routerDelete"}, s \in Subjects, i \in Ids :
        DeleteBegin(h, s, i)
  \/ \E k \in 1..MaxInFlight : DeleteCommit(k)

\* Delete requests overlapping each other.
SpecDel == Init /\ [][NextDel]_vars

\* ------------------------------------------------------------------ claims
\* The transition table of the status workflow.
LegalEdges ==
  {<<"Pending", "In Progress">>, <<"Pending", "Rejected">>,
   <<"In Progress", "Resolved">>, <<"In Progress", "Rejected">>}

Terminal == {"Resolved", "Rejected"}

CreateHandlers == {"createComplaint", "routerPost"}

DeleteHandlers == {"deleteComplaint", "routerDelete"}

CreateRequest(h, subj, title) ==
  IF h = "createComplaint" THEN createComplaint(subj, title) ELSE RouterPost(subj, title)

DeleteRequest(h, subj, id) ==
  IF h = "deleteComplaint" THEN deleteComplaint(subj, id) ELSE RouterDelete(subj, id)

\* A counter as a number, an aggregate not yet created counting as zero.
Num0(x) == IF x.t = "number" THEN x.v ELSE 0

\* The number of stored complaints of an owner, in a status or in all.
Owned(owner) == {i \in DOMAIN complaints : complaints[i].user = owner}

OwnedIn(owner, status) == {i \in Owned(owner) : complaints[i].status = status}

Max0(n) == IF n < 0 THEN 0 ELSE n

\* C1: from a non-terminal status an administrator's transition succeeds only
\* along Pending->In Progress, Pending->Rejected, In Progress->Resolved and
\* In Progress->Rejected; any other pair is answered 400 (InvalidTransition)
\* and leaves status and statusHistory as they were.
C1_OnlyLegalEdges ==
  [][\A h \in StatusHandlers, s \in Subjects, i \in Ids, st \in Statuses, n \in Notes :
       (/\ StatusRequest(h, s, i, st, n)
        /\ Role(s) = "admin"
        /\ i \in DOMAIN complaints
        /\ complaints[i].status \notin Terminal)
       => IF <<complaints[i].status, st>> \in LegalEdges
            THEN resp'.code = 200
            ELSE /\ resp'.code = 400
                 /\ complaints'[i].status = complaints[i].status
                 /\ complaints'[i].statusHistory = complaints[i].statusHistory]_vars

\* C2: once a complaint is Resolved or Rejected, in every later state it has
\* that same status or is deleted.
C2_TerminalIsFinal ==
  [][\A i \in Ids :
       (i \in DOMAIN complaints /\ complaints[i].status \in Terminal)
       => (i \in DOMAIN complaints' => complaints'[i].status = complaints[i].status)]_vars

\* C3: every stored complaint has a non-empty statusHistory whose timestamps
\* do not decrease and whose last entry carries the current status.
C3_HistoryInvariant ==
  \A i \in DOMAIN complaints :
    LET h == complaints[i].statusHistory
    IN /\ Len(h) > 0
       /\ \A k \in 1..(Len(h) - 1) : h[k].updatedAt <= h[k + 1].updatedAt
       /\ h[Len(h)].status = complaints[i].status

\* C4: read for an owner of stored complaints, the aggregate has
\* total = pending + inProgress + resolved + rejected.
C4_TotalIsSum ==
  \A o \in Subjects :
    Owned(o) # {} =>
      JsEq(Counter(o, "totalComplaints"),
           JsAdd(JsAdd(Counter(o, "pending"), Counter(o, "inProgress")),
                 JsAdd(Counter(o, "resolved"), Counter(o, "rejected"))))

\* C5: after each completed request the aggregate of an owner of complaints
\* equals the owner's stored complaints counted by status, and total their
\* number.
C5_AggregateMatchesComplaints ==
  \A o \in Subjects :
    Owned(o) # {} =>
      /\ Counter(o, "totalComplaints") = JsNum(Cardinality(Owned(o)))
      /\ \A st \in Statuses :
           Counter(o, StatusCounter(st)) = JsNum(Cardinality(OwnedIn(o, st)))

\* C6: a successful create stores a Pending complaint with one history entry
\* (Pending, by the owner) and adds 1 to the owner's total and pending, the
\* other counters staying as they were.
C6_CreateEffect ==
  [][\A h \in CreateHandlers, s \in Creators, t \in Titles :
       (CreateRequest(h, s, t) /\ resp'.code = 201)
       => /\ nextId \in DOMAIN complaints'
          /\ complaints'[nextId].user = s
          /\ complaints'[nextId].status = "Pending"
          /\ Len(complaints'[nextId].statusHistory) = 1
          /\ complaints'[nextId].statusHistory[1].status = "Pending"
          /\ complaints'[nextId].statusHistory[1].updatedBy = s
          /\ \A f \in CounterFields :
               Counter(s, f)' =
                 JsNum(Num0(Counter(s, f))
                       + IF f \in {"totalComplaints", "pending"} THEN 1 ELSE 0)]_vars

\* C7: a successful transition from s to t sets the status to t, appends the
\* one entry {t, acting subject, now, note}, takes 1 from the owner's counter
\* of s and adds 1 to that of t, total and the other counters unchanged.
C7_TransitionEffect ==
  [][\A h \in StatusHandlers, s \in Subjects, i \in Ids, st \in Statuses, n \in Notes :
       (StatusRequest(h, s, i, st, n) /\ resp'.code = 200)
       => LET c == complaints[i]
          IN /\ complaints'[i].status = st
             /\ Len(complaints'[i].statusHistory) = Len(c.statusHistory) + 1
             /\ SubSeq(complaints'[i].statusHistory, 1, Len(c.statusHistory))
                  = c.statusHistory
             /\ LET e == complaints'[i].statusHistory[Len(c.statusHistory) + 1]
                IN /\ e.status = st
                   /\ e.updatedBy = s
                   /\ e.updatedAt = now
                   /\ n # "" => e.note = n
             /\ \A f \in CounterFields :
                  Counter(c.user, f)' =
                    JsNum(Num0(Counter(c.user, f))
                          - (IF f = StatusCounter(c.status) THEN 1 ELSE 0)
                          + (IF f = StatusCounter(st) THEN 1 ELSE 0))]_vars

C9_DeleteAuthorisation ==
  [][\A h \in DeleteHandlers, s \in Subjects, i \in Ids :
       (/\ DeleteRequest(h, s, i)
        /\ i \in DOMAIN complaints
        /\ Role(s) \in {"user", "admin"})
       => IF \/ Role(s) = "admin"
             \/ (complaints[i].user = s /\ complaints[i].status = "Pending")
            THEN resp'.code = 200 /\ i \notin DOMAIN complaints'
            ELSE /\ resp'.code = 403
                 /\ complaints' = complaints
                 /\ dashboards' = dashboards]_vars

\* C9, its core: a member's delete of a complaint that is not Pending leaves
\* the complaint stored.
C9_NonPendingKept ==
  [][\A h \in DeleteHandlers, s \in Subjects, i \in Ids :
       (/\ DeleteRequest(h, s, i)
        /\ i \in DOMAIN complaints
        /\ Role(s) = "user"
        /\ complaints[i].status # "Pending")
       => complaints' = complaints]_vars

\* C10: a successful delete removes the document and takes 1, not below
\* zero, from the owner's total and from the counter of the complaint's
\* status, the other three counters unchanged.
C10_DeleteEffect ==
  [][\A h \in DeleteHandlers, s \in Subjects, i \in Ids :
       (DeleteRequest(h, s, i) /\ resp'.code = 200)
       => LET c == complaints[i]
          IN /\ i \notin DOMAIN complaints'
             /\ \A f \in CounterFields :
                  Counter(c.user, f)' =
                    IF f \in {"totalComplaints", StatusCounter(c.status)}
                      THEN JsNum(Max0(Num0(Counter(c.user, f)) - 1))
                      ELSE Counter(c.user, f)]_vars

\* The subjects in a likes array.
Members(likes) == {likes[k] : k \in 1..Len(likes)}

\* C11: for every stored complaint and every subject, toggleLike applied twice
\* in a row, with no other like operation in between, leaves the likes with
\* the membership and the size they had, whether the subject was a member
\* or not.
C11_ToggleTwiceRestores ==
  \A i \in DOMAIN complaints, s \in Subjects :
    LET twice == toggleLike(toggleLike(complaints[i], s), s).likes
    IN /\ Members(twice) = Members(complaints[i].likes)
       /\ Len(twice) = Len(complaints[i].likes)

\* C12: in every reachable state each subject appears at most once in the
\* likes of a complaint, like requests on the same complaint overlapping or
\* not.
C12_LikesAreASet ==
  \A i \in DOMAIN complaints :
    \A j, k \in 1..Len(complaints[i].likes) :
      complaints[i].likes[j] = complaints[i].likes[k] => j = k

ListHandlers == {"routerList", "getUserComplaints"}

\* What a list response may carry for the subject that asked: complaints of
\* that subject only, in the page and in the total.
ListsOwnOnly ==
  /\ \A k \in 1..Len(resp.data) : complaints[resp.data[k]].user = resp.subject
  /\ resp.total = Cardinality(Find(resp.subject, resp.status))

GetHandlers == {"routerGet", "getComplaint"}

\* The request handled by the step, through either handler of GET /:id.
GetRequest(h, subj, id) ==
  IF h = "routerGet" THEN RouterGet(subj, id) ELSE getComplaint(subj, id)

\* C14: GET /complaints/{id} answers 404 when no complaint has the id, 403
\* when the complaint exists and the requester is a member who does not own
\* it, and 200 with the complaint when the requester is its owner or an
\* administrator.
C14_GetByIdCodes ==
  [][resp'.handler \in GetHandlers =>
       \A s \in Subjects, i \in Ids :
         GetRequest(resp'.handler, s, i) =>
           /\ i \notin DOMAIN complaints => resp'.code = 404
           /\ (/\ i \in DOMAIN complaints
               /\ Role(s) = "user"
               /\ complaints[i].user # s) => resp'.code = 403
           /\ (/\ i \in DOMAIN complaints
               /\ Role(s) = "admin" \/ complaints[i].user = s)
              => (resp'.code = 200 /\ resp'.data = <<i>>)]_vars

DashboardReadHandlers == {"dashboardGet", "dashboardList"}

\* C15: GET /dashboard hands an aggregate to an administrator, or to the
\* member it belongs to; a member asking for another owner's aggregate and a
\* requester without credential never receive one.
C15_AggregateReadersOnly ==
  (/\ resp.handler \in DashboardReadHandlers
   /\ resp.code = 200
   /\ resp.data # <<>>)
  => /\ resp.subject # Anonymous
     /\ \/ Role(resp.subject) = "admin"
        \/ \A k \in 1..Len(resp.data) :
             /\ "user" \in DOMAIN dashboards[resp.data[k]]
             /\ dashboards[resp.data[k]]["user"] = resp.subject

\* C16: of two transition requests on the same complaint that overlap, the
\* one whose save arrives after the status it read has changed fails with
\* Conflict (409) and writes nothing: no transition is applied against a
\* stale from-status.
C16_NoStaleTransition ==
  [][Len(inflight') < Len(inflight) =>
       \A k \in 1..MaxInFlight :
         (/\ StatusCommit(k)
          /\ inflight[k].id \in DOMAIN complaints
          /\ inflight[k].oldStatus # complaints[inflight[k].id].status)
         => /\ resp'.code = 409
            /\ complaints' = complaints]_vars

\* The number of the owner's stored complaints a counter stands for.
LiveCount(o, f) ==
  IF f = "totalComplaints" THEN Cardinality(Owned(o))
  ELSE Cardinality({i \in Owned(o) : StatusCounter(complaints[i].status) = f})

\* The delta a completed request owes to counter f of owner o.
CreateDelta(o, f, s) ==
  IF s = o /\ f \in {"totalComplaints", "pending"} THEN 1 ELSE 0

TransitionDelta(o, f, r) ==
  IF complaints[r.id].user # o THEN 0
  ELSE (IF f = StatusCounter(r.status) THEN 1 ELSE 0)
       - (IF f = StatusCounter(r.oldStatus) THEN 1 ELSE 0)

DeleteDelta(o, f, i) ==
  IF complaints[i].user = o /\ f \in {"totalComplaints", StatusCounter(complaints[i].status)}
    THEN -1 ELSE 0

\* C17: with create, transition and delete requests on one owner's complaints
\* interleaved, every completed request changes each stored counter by its
\* own delta (a delete clamped at zero), so that no delta is lost.
C17_NoLostDelta ==
  [][\A o \in Creators, f \in CounterFields :
       LET before == Num0(Counter(o, f))
           after == Num0(Counter(o, f)')
       IN /\ \A s \in Creators :
               (createComplaint(s, "Pothole") /\ resp'.code = 201)
               => after = before + CreateDelta(o, f, s)
          /\ \A k \in 1..MaxInFlight :
               (StatusCommit(k) /\ resp'.code = 200)
               => after = before + TransitionDelta(o, f, inflight[k])
          /\ \A s \in Creators \cup ConcActors, i \in Ids :
               (deleteComplaint(s, i) /\ resp'.code = 200)
               => after = Max0(before + DeleteDelta(o, f, i))]_vars

\* The owner's aggregate holds the live counts of the owner's complaints.
Recomputed(o) ==
  \A f \in CounterFields : Counter(o, f) = JsNum(LiveCount(o, f))

\* C18: recompute(owner) can be called on demand: from every state some
\* operation, leaving the complaints alone, replaces the aggregate of an
\* owner of complaints by the counts of the owner's stored complaints.
C18_RecomputeOnDemand ==
  \A o \in Creators :
    Owned(o) # {} =>
      ENABLED (NextAgg /\ complaints' = complaints /\ Recomputed(o)')

\* The owner's aggregate agrees with the live counts, an aggregate never
\* created counting as zeros.
Reconciled(o) ==
  \A f \in CounterFields : Num0(Counter(o, f)) = LiveCount(o, f)

\* C19: when a complaint write has been persisted and its aggregate delta
\* has not been applied, the owner's aggregate comes to equal the live
\* counts again without a further client request.
C19_EventuallyReconciled ==
  \A o \in Creators : (~Reconciled(o)) ~> Reconciled(o)

\* The status codes of ValidationFailed, Forbidden and NotFound.
RejectionCodes == {400, 403, 404}

\* C20: a request that ends in ValidationFailed, InvalidTransition, Forbidden
\* or NotFound has written nothing: the complaints, with their status,
\* statusHistory and likes, and the dashboards are the same before and after.
C20_RejectedWritesNothing ==
  [][resp'.code \in RejectionCodes =>
       (complaints' = complaints /\ dashboards' = dashboards)]_vars

\* A delete was refused with 403 and the complaint it named is stored.
C20_Witness ==
  /\ resp.handler = "routerDelete"
  /\ resp.code = 403
  /\ DOMAIN complaints # {}

\* The statuses a complaint's history records, in order.
HistoryStatuses(i) ==
  [k \in 1..Len(complaints[i].statusHistory) |-> complaints[i].statusHistory[k].status]

\* The aggregate of an owner as read, and an aggregate of five numbers.
Aggregate(o) == [f \in CounterFields |-> Counter(o, f)]

Counters(t, p, ip, rs, rj) ==
  [f \in CounterFields |->
     JsNum(CASE f = "totalComplaints" -> t
             [] f = "pending" -> p
             [] f = "inProgress" -> ip
             [] f = "resolved" -> rs
             [] OTHER -> rj)]

\* The aggregate the scenario expects while the complaint has gone through
\* the statuses recorded in its history.
ScenarioAggregates ==
  \A i \in DOMAIN complaints :
    LET o == complaints[i].user
    IN /\ HistoryStatuses(i) = <<"Pending">>
            => Aggregate(o) = Counters(1, 1, 0, 0, 0)
       /\ HistoryStatuses(i) = <<"Pending", "In Progress">>
            => Aggregate(o) = Counters(1, 0, 1, 0, 0)
       /\ HistoryStatuses(i) = <<"Pending", "In Progress", "Resolved">>
            => Aggregate(o) = Counters(1, 0, 0, 1, 0)

\* The last steps of the scenario, on the complaint once Resolved: a
\* transition to Pending fails, the owner's delete fails with 403, the
\* administrator's delete succeeds and leaves the five counters at 0.
ScenarioLastSteps ==
  \A i \in DOMAIN complaints :
    HistoryStatuses(i) = <<"Pending", "In Progress", "Resolved">> =>
      LET o == complaints[i].user
      IN /\ \A n \in Notes :
              updateComplaintStatus("a1", i, "Pending", n)
              => (resp'.code = 400 /\ complaints' = complaints)
         /\ deleteComplaint(o, i)
              => (resp'.code = 403 /\ complaints' = complaints)
         /\ deleteComplaint("a1", i)
              => /\ resp'.code = 200
                 /\ i \notin DOMAIN complaints'
                 /\ Aggregate(o)' = Counters(0, 0, 0, 0, 0)

\* C21: the end-to-end scenario holds step by step: create gives the owner
\* {total 1, pending 1}; the transition to In Progress {total 1, inProgress
\* 1} and a history of two entries; the transition to Resolved {total 1,
\* resolved 1}; then a transition to Pending fails, the owner's delete is
\* forbidden, and the administrator's delete leaves all five counters at 0.
C21_Scenario ==
  /\ []ScenarioAggregates
  /\ [][ScenarioLastSteps]_vars

\* h is a prefix of g.
IsPrefix(h, g) ==
  /\ Len(h) <= Len(g)
  /\ \A k \in 1..Len(h) : g[k] = h[k]

KeepHistoryHandlers == {"routerPut", "toggleComplaintLike", "routerLike"}

\* Every step on a complaint that exists before and after it keeps its
\* history as a prefix; a successful transition adds exactly one entry; an
\* edit, a like and a rejected request add none.
HistoryAppendOnly ==
  \A i \in DOMAIN complaints \cap DOMAIN complaints' :
    LET h == complaints[i].statusHistory
        g == complaints'[i].statusHistory
    IN /\ IsPrefix(h, g)
       /\ (resp'.handler \in StatusHandlers /\ resp'.code = 200) =>
            \A s \in Subjects, st \in Statuses, n \in Notes :
              StatusRequest(resp'.handler, s, i, st, n) => Len(g) = Len(h) + 1
       /\ (resp'.handler \in KeepHistoryHandlers \/ resp'.code \in RejectionCodes)
            => g = h

\* The first entry of every history is the creation entry.
FirstEntryIsCreation ==
  \A i \in DOMAIN complaints :
    /\ Len(complaints[i].statusHistory) >= 1
    /\ complaints[i].statusHistory[1].status = "Pending"
    /\ complaints[i].statusHistory[1].updatedBy = complaints[i].user
    /\ complaints[i].statusHistory[1].note = "Complaint created"

\* C22: statusHistory is append-only: the history before an operation on an
\* existing complaint is a prefix of the history after it, a successful
\* transition lengthens it by exactly one entry, edit, toggleLike and failed
\* requests leave it unchanged, and its first entry is always the creation
\* entry with status Pending.
C22_HistoryAppendOnly ==
  /\ []FirstEntryIsCreation
  /\ [][HistoryAppendOnly]_vars

\* A like was accepted on a complaint whose history has grown to three
\* entries.
C22_Witness ==
  /\ resp.handler \in {"toggleComplaintLike", "routerLike"}
  /\ resp.code = 200
  /\ \E i \in DOMAIN complaints :
       /\ Len(complaints[i].statusHistory) = MaxHistory
       /\ complaints[i].likes # <<>>

\* A value read off a document is a non-negative integer.
IsCount(x) == x.t = "number" /\ x.v >= 0

\* C23: in every reachable state the five counters of every owner of
\* complaints, read off the aggregate the handlers find for the owner, are
\* non-negative integers, also after a transition or a delete applied to an
\* aggregate that lags behind.
C23_CountersAreCounts ==
  \A o \in Subjects :
    Owned(o) # {} => \A f \in CounterFields : IsCount(Counter(o, f))

\* C24: toggleLike changes only the likes of the complaint it names: that
\* complaint's status, statusHistory and owner, every other complaint and the
\* dashboards are unchanged; on a missing complaint it answers 404 and
\* changes nothing.
C24_LikeFrame ==
  [][resp'.handler \in LikeHandlers =>
       \A s \in ConcLikers, i \in Ids :
         LikeRequest(resp'.handler, s, i) =>
           /\ dashboards' = dashboards
           /\ DOMAIN complaints' = DOMAIN complaints
           /\ \A j \in DOMAIN complaints \ {i} : complaints'[j] = complaints[j]
           /\ IF i \in DOMAIN complaints
                THEN complaints'[i] = [complaints[i] EXCEPT !.likes = complaints'[i].likes]
                ELSE resp'.code = 404 /\ complaints' = complaints]_vars

\* A like was accepted on a complaint that has left Pending while the
\* complaint of another subject is stored.
C24_Witness ==
  /\ resp.handler \in LikeHandlers
  /\ resp.code = 200
  /\ SeedId \in DOMAIN complaints
  /\ \E i \in DOMAIN complaints \ {SeedId} :
       /\ complaints[i].status # "Pending"
       /\ complaints[i].likes # <<>>

ReadHandlers ==
  {"routerList", "getUserComplaints", "routerGet", "getComplaint",
   "getAllComplaints", "statsOverview", "dashboardList", "dashboardGet"}

\* C25: the read operations (list, get by id, admin list-all, statistics,
\* dashboard read) never change the stored complaints or dashboards,
\* whatever their parameters and outcome.
C25_ReadsWriteNothing ==
  [][resp'.handler \in ReadHandlers =>
       (complaints' = complaints /\ dashboards' = dashboards)]_vars

\* The statistics were served while a complaint and a dashboard entry are
\* stored.
C25_Witness ==
  /\ resp.handler = "statsOverview"
  /\ resp.code = 200
  /\ resp.total = 1
  /\ dashboards # <<>>

\* An accepted edit was asked by the owner or an administrator, and by a
\* member only while the complaint was Pending.
EditAuthorised ==
  \A s \in Subjects, i \in Ids, t \in EditTitles :
    (RouterPut(s, i, t) /\ resp'.code = 200) =>
      /\ complaints[i].user = s \/ Role(s) = "admin"
      /\ Role(s) = "user" => complaints[i].status = "Pending"

\* An edit keeps every complaint stored and changes nothing but the
\* editable fields; a refused edit changes nothing at all.
EditFrame ==
  /\ DOMAIN complaints' = DOMAIN complaints
  /\ \A i \in DOMAIN complaints :
       complaints'[i] = [complaints[i] EXCEPT !.title = complaints'[i].title]
  /\ resp'.code # 200 => complaints' = complaints
  /\ dashboards' = dashboards

\* No step changes the owner of a complaint that stays stored.
OwnerKept ==
  \A i \in DOMAIN complaints \cap DOMAIN complaints' :
    complaints'[i].user = complaints[i].user

\* C26: PUT /complaints/{id} is accepted only from the owner or an
\* administrator, from a member only while the complaint is Pending; it
\* changes only the editable fields, so owner, status, statusHistory and
\* likes are kept, and no operation ever changes a complaint's owner.
C26_EditFrame ==
  [][/\ OwnerKept
     /\ resp'.handler = "routerPut" => (EditAuthorised /\ EditFrame)]_vars

\* An administrator retitled a processed complaint that carries likes, next
\* to the complaint of another owner.
C26_Witness ==
  /\ resp.handler = "routerPut"
  /\ resp.code = 200
  /\ 1 \in DOMAIN complaints
  /\ complaints[1].title = "Flooded road"
  /\ complaints[1].status = "Resolved"
  /\ complaints[1].likes # <<>>
  /\ Len(complaints[1].statusHistory) > 1
  /\ SeedId \in DOMAIN complaints

\* The aggregate of an owner whose only complaint stands in `status`.
SingleComplaintAggregate(status) ==
  [f \in CounterFields |->
     JsNum(IF f \in {"totalComplaints", StatusCounter(status)} THEN 1 ELSE 0)]

\* C27: a transition applied for an owner with one complaint and no
\* aggregate creates the aggregate: afterwards it reads total 1, the counter
\* of the new status 1 and every other status counter 0.
C27_AggregateCreatedOnFirstUse ==
  [][(resp'.handler = "updateComplaintStatus" /\ resp'.code = 200) =>
       \A o \in Creators :
         (Cardinality(Owned(o)) = 1 /\ DashboardFindOne(o) = {}) =>
           \E i \in Owned(o) :
             Aggregate(o)' = SingleComplaintAggregate(complaints'[i].status)]_vars

\* The counters kept for an owner match the complaints stored for that owner.
CountersMatch(o) ==
  /\ \A f \in CounterFields : Counter(o, f) = JsNum(LiveCount(o, f))
  /\ UserGet(o, "complaintsCount") = JsNum(Cardinality(Owned(o)))

\* C28: when two deletes of one complaint overlap (the second removes
\* nothing, the first has removed the complaint it read), the owner's
\* counters and complaintsCount are decremented once and match the
\* complaints that remain.
C28_ConcurrentDeleteCountsOnce ==
  [][\A k \in 1..MaxInFlight :
       (/\ k \in 1..Len(inflight)
        /\ inflight[k].id \notin DOMAIN complaints
        /\ DeleteCommit(k)) => CountersMatch(inflight[k].user)']_vars

\* C29: a failed dashboard update inside create, transition or delete does
\* not fail the request and does not undo the complaint write: the answer is
\* 201 for create and 200 for transition and delete, and the complaint is
\* stored, updated or removed as the handler wrote it.
C29_DashboardFailureTolerated ==
  [][resp'.dashboardError =>
       CASE resp'.handler = "createComplaint" ->
              /\ resp'.code = 201
              /\ \E s \in Creators, t \in Titles :
                   /\ ComplaintValid(t)
                   /\ complaints' = (nextId :> PreSaveNew(NewComplaint(s, t))) @@ complaints
         [] resp'.handler = "updateComplaintStatus" ->
              /\ resp'.code = 200
              /\ \E s \in Subjects, i \in Ids, st \in Statuses, n \in Notes :
                   LET r == StatusRead("updateComplaintStatus", s, i, st, n)
                   IN /\ r.code = 0
                      /\ complaints' = MongooseSave(r, complaints)
         [] resp'.handler = "deleteComplaint" ->
              /\ resp'.code = 200
              /\ \E s \in Subjects, i \in Ids :
                   /\ ControllerDeleteFinds(s, i)
                   /\ complaints' = FindByIdAndDelete(i)
         [] OTHER -> FALSE]_vars

\* A delete was answered 200 with the complaint removed although its
\* dashboard update failed, a dashboard document being stored.
C29_Witness ==
  /\ resp.handler = "deleteComplaint"
  /\ resp.code = 200
  /\ resp.dashboardError
  /\ complaints = <<>>
  /\ nextId > 1
  /\ dashboards # <<>>

\* The two delete handlers take the same decision on a request.
DeleteDecisionsAgree(s, i) ==
  ControllerDeleteFinds(s, i) <=> (RouterDeleteCheck(s, i) = 0)

\* The two status handlers take the same decision on a request and, when
\* they accept it, save the same complaint.
StatusDecisionsAgree(s, i, st, n) ==
  LET c == StatusRead("updateComplaintStatus", s, i, st, n)
      r == StatusRead("routerStatus", s, i, st, n)
  IN /\ (c.code = 0) <=> (r.code = 0)
     /\ (c.code = 0 /\ r.code = 0) =>
          MongooseSave(c, complaints) = MongooseSave(r, complaints)

\* C30: the handlers of routes/complaints.js and those of
\* controllers/complaintController.js are equivalent: on every request
\* (subject, complaint, target status, note) they both accept or both
\* reject a delete and a transition, and from the same state they leave the
\* same status, statusHistory and likes.
C30_HandlersEquivalent ==
  \A s \in Subjects, i \in Ids :
    /\ DeleteDecisionsAgree(s, i)
    /\ \A st \in Statuses, n \in Notes : StatusDecisionsAgree(s, i, st, n)
====
